---- MODULE Spec2Model ----
(***************************************************************************)
(* Model of the roller-coaster ride of src/src/app/animation:              *)
(*   AnimationService (animation.service.ts) and the Animation component   *)
(*   that drives it (its event handlers, ngOnInit and ngOnDestroy).        *)
(*                                                                         *)
(* Numbers.  JavaScript numbers are modelled in fixed point:               *)
(*   progress, velocity     in units of 1 / PScale of a loop,              *)
(*   coordinates, unit vectors, sines in units of 1 / VScale,              *)
(*   the steering input     in units of 1 / MScale.                        *)
(* Divisions round towards minus infinity where a double would keep the   *)
(* fraction.  NaN is a value of its own (NaN) that every arithmetic        *)
(* operation propagates, as IEEE-754 does.                                 *)
(***************************************************************************)
EXTENDS Integers, Sequences, FiniteSets, TLC

\* ------------------------------------------------------------ bounds

\* animate() invocations explored (the synchronous ones in start() included)
MaxFrames == 4
\* start() calls explored (the one in ngOnInit included)
MaxStarts == 2
\* dispose() calls explored (the one in ngOnDestroy included)
MaxDisposes == 2

\* ------------------------------------------------------------ numbers

\* the number 1 of `progress % 1`, in progress units
PScale == 10000000
\* the number 1 of a coordinate or of a unit vector's length
VScale == 10000
\* the number 1 of the normalized pointer position
MScale == 1000

\* JavaScript's NaN
NaN == -2000000000

IsNaN(a) == a = NaN

Add(a, b) == IF IsNaN(a) \/ IsNaN(b) THEN NaN ELSE a + b

Sub(a, b) == IF IsNaN(a) \/ IsNaN(b) THEN NaN ELSE a - b

\* a * num / den
Times(a, num, den) == IF IsNaN(a) THEN NaN ELSE (a * num) \div den

\* the product of two VScale-scaled numbers, VScale-scaled
Mul(a, b) == IF IsNaN(a) \/ IsNaN(b) THEN NaN ELSE (a * b) \div VScale

\* Math.min and Math.max return NaN when an argument is NaN
MathMin(a, b) == IF IsNaN(a) \/ IsNaN(b) THEN NaN ELSE IF a < b THEN a ELSE b

MathMax(a, b) == IF IsNaN(a) \/ IsNaN(b) THEN NaN ELSE IF a > b THEN a ELSE b

RECURSIVE SqrtStep(_, _)
SqrtStep(n, x) ==
    LET y == (x + n \div x) \div 2
    IN  IF y >= x THEN x ELSE SqrtStep(n, y)

\* Math.sqrt, rounded down (Newton's iteration from above), for 0 <= n < 2^31
MathSqrt(n) == IF n = 0 THEN 0 ELSE SqrtStep(n, 46340)

\* ------------------------------------------------------------ THREE.Vector3

NaNVector == <<NaN, NaN, NaN>>

ZeroVector == <<0, 0, 0>>

HasNaN(v) == IsNaN(v[1]) \/ IsNaN(v[2]) \/ IsNaN(v[3])

VAdd(a, b) == <<Add(a[1], b[1]), Add(a[2], b[2]), Add(a[3], b[3])>>

VSub(a, b) == <<Sub(a[1], b[1]), Sub(a[2], b[2]), Sub(a[3], b[3])>>

\* Vector3.multiplyScalar(num / den)
multiplyScalar(v, num, den) ==
    <<Times(v[1], num, den), Times(v[2], num, den), Times(v[3], num, den)>>

\* Vector3.crossVectors(a, b) of two unit-scaled vectors
crossVectors(a, b) ==
    <<Sub(Mul(a[2], b[3]), Mul(a[3], b[2])),
      Sub(Mul(a[3], b[1]), Mul(a[1], b[3])),
      Sub(Mul(a[1], b[2]), Mul(a[2], b[1]))>>

\* Vector3.length()
VLength(v) == MathSqrt(v[1] * v[1] + v[2] * v[2] + v[3] * v[3])

\* Vector3.normalize() is divideScalar(length() || 1): the zero vector stays
\* the zero vector
normalize(v) ==
    IF HasNaN(v) THEN NaNVector
    ELSE LET len == VLength(v)
             d   == IF len = 0 THEN 1 ELSE len
         IN  <<(v[1] * VScale) \div d, (v[2] * VScale) \div d, (v[3] * VScale) \div d>>

\* a normalisation that divides by the length itself: 0 / 0 is NaN
normalizeUnguarded(v) ==
    IF HasNaN(v) THEN NaNVector
    ELSE LET len == VLength(v)
         IN  IF len = 0 THEN NaNVector
             ELSE <<(v[1] * VScale) \div len, (v[2] * VScale) \div len,
                    (v[3] * VScale) \div len>>

\* ------------------------------------------------------------ CONFIG

INITIAL_VELOCITY == 2000
MIN_VELOCITY == 500
MAX_VELOCITY == 40000
\* 0.000003 of a loop
GRAVITY_FACTOR == 30
FIXED_DELTA_TIME == 16
\* 0.995, in thousandths
VELOCITY_DAMPING == 995
\* 2.5, in tenths
CURVE_SCALE == 25
\* const delta = 0.0001
DELTA == 1000

\* ------------------------------------------------------------ Math.sin

\* sin(k * 9 degrees) for k = 0..10, VScale-scaled
SinQuarter == <<0, 1564, 3090, 4540, 5878, 7071, 8090, 8910, 9511, 9877, 10000>>

\* table points per period
SinPoints == 40

\* the whole period, by the symmetries of the sine
SinTable ==
    [i \in 0..(SinPoints - 1) |->
        IF i <= 10 THEN SinQuarter[i + 1]
        ELSE IF i <= 20 THEN SinQuarter[20 - i + 1]
        ELSE IF i <= 30 THEN 0 - SinQuarter[i - 20 + 1]
        ELSE 0 - SinQuarter[40 - i + 1]]

\* sin of `phase` (in 1 / PScale of a period, 0 <= phase < PScale), linearly
\* interpolated between the table points
SinPhase(phase) ==
    LET seg == PScale \div SinPoints
        i   == phase \div seg
        f   == phase % seg
        a   == SinTable[i]
        b   == SinTable[(i + 1) % SinPoints]
    IN  a + ((b - a) * f) \div seg

\* Math.sin(angle * num / den) where angle = t * 2 pi
MathSin(t, num, den) == SinPhase(((t * num) \div den) % PScale)

\* Math.cos(angle * num / den) where angle = t * 2 pi
MathCos(t, num, den) == SinPhase((((t * num) \div den) + PScale \div 4) % PScale)

\* ------------------------------------------------------------ the path

\* the coordinates getPointAt(t) writes into its scratch vector
CoasterPoint(t) ==
    LET x == Mul(MathSin(t, 2, 1), MathCos(t, 3, 1)) * 60
        y == MathSin(t, 4, 1) * 8 + MathCos(t, 8, 1) * 4 + 15 * VScale
        z == Mul(MathSin(t, 3, 2), MathCos(t, 2, 1)) * 60
    IN  multiplyScalar(<<x, y, z>>, CURVE_SCALE, 10)

\* where the synthetic path leaves its plateau
PlateauEnd == 5 * DELTA

\* a synthetic path: constant up to PlateauEnd, a straight descent after it,
\* so that the finite difference of getTangentAt is exactly zero on the plateau
PlateauPoint(t) ==
    LET ramp == IF t <= PlateauEnd THEN 0 ELSE t - PlateauEnd
    IN  <<ramp, 15 * VScale - ramp, 0>>

\* ParametricCurve.getPointAt(t): the value it leaves in (and returns as) the
\* closure's scratch `vector`
getPointAt(p, t) ==
    IF IsNaN(t) THEN NaNVector
    ELSE IF p = "coaster" THEN CoasterPoint(t) ELSE PlateauPoint(t)

\* const t1 = Math.max(0, t - delta)
TangentT1(t) == MathMax(0, Sub(t, DELTA))

\* const t2 = Math.min(1, t + delta)
TangentT2(t) == MathMin(PScale, Add(t, DELTA))

\* getTangentAt with a normalisation that does not guard the zero length
getTangentAtUnguarded(p, t) ==
    [vector  |-> getPointAt(p, TangentT1(t)),
     vector2 |-> normalizeUnguarded(VSub(getPointAt(p, TangentT2(t)),
                                         getPointAt(p, TangentT1(t))))]

\* vector2.copy(<p2>).sub(<p1>).normalize(), where p1 is the value the last
\* getPointAt call left in `vector`
tangentScratch(p1, p2) == [vector |-> p1, vector2 |-> normalize(VSub(p2, p1))]

\* ParametricCurve.getTangentAt(t): the contents of the closure's two scratch
\* vectors when it returns.  vector2.copy(getPointAt(t2)).sub(getPointAt(t1))
\* .normalize() is the result; the last getPointAt call, getPointAt(t1), is
\* what stays in `vector`
getTangentAt(p, t) ==
    tangentScratch(getPointAt(p, TangentT1(t)), getPointAt(p, TangentT2(t)))

\* ------------------------------------------------------------ the updater

\* progress += velocity without the modulo
advanceUnwrapped(p, v) == Add(p, v)

\* this.progress += this.velocity; this.progress = this.progress % 1
advance(p, v) ==
    LET sum == Add(p, v) IN IF IsNaN(sum) THEN NaN ELSE sum % PScale

\* a clamp that forgets the upper limit
clampVelocityNoMax(v) == MathMax(MIN_VELOCITY, v)

\* Math.max(MIN_VELOCITY, Math.min(MAX_VELOCITY, velocity))
clampVelocity(v) == MathMax(MIN_VELOCITY, MathMin(MAX_VELOCITY, v))

\* the velocity update of updateCameraPosition, from the sampled tangent
integrateVelocity(v, tangent) ==
    LET slopeEffect  == Sub(0, tangent[2])
        acceleration == Times(slopeEffect, GRAVITY_FACTOR * FIXED_DELTA_TIME, VScale)
    IN  clampVelocity(Times(Add(v, acceleration), VELOCITY_DAMPING, 1000))

\* const mouseOffsetX = (this.mouseX - 0.5) * 20
mouseOffsetX(mx) == ((mx - MScale \div 2) * 20 * VScale) \div MScale

\* updateCameraPosition() from line 350 on.  `sampled` is what `position`
\* held when getPointAt returned it (line 347); `scratch` is the contents of
\* the scratch vectors after getTangentAt (line 348), which has overwritten
\* the vector behind `position`
placeCamera(newProgress, sampled, scratch, vel, mx) ==
    LET tangent      == scratch.vector2
        position     == scratch.vector
        cameraOffset == VAdd(multiplyScalar(tangent, -3, 2), <<0, VScale, 0>>)
        placed       == VAdd(position, cameraOffset)
        \* tangent.multiplyScalar(5) scales the scratch vector2 in place
        ahead        == multiplyScalar(tangent, 5, 1)
    IN  [progress       |-> newProgress,
         velocity       |-> integrateVelocity(vel, tangent),
         sampled        |-> sampled,
         used           |-> position,
         tangent        |-> tangent,
         cameraPosition |-> <<Add(placed[1], mouseOffsetX(mx)), placed[2], placed[3]>>,
         cameraTarget   |-> VAdd(position, ahead),
         vector         |-> position,
         vector2        |-> ahead]

\* updateCameraPosition() from line 347 on: the path is sampled at the new
\* progress
sampleAndPlace(p, newProgress, vel, mx) ==
    placeCamera(newProgress, getPointAt(p, newProgress), getTangentAt(p, newProgress),
                vel, mx)

\* updateCameraPosition(): the new simulation state, the camera placement and
\* the contents of the two scratch vectors when it returns
updateCameraPosition(p, prog, vel, mx) == sampleAndPlace(p, advance(prog, vel), vel, mx)

\* updateCarPosition() without its first line
carUpdateUnguarded(loaded) == IF loaded THEN "assigned" ELSE "error"

\* if (!this.carModel) return;  otherwise the transform is assigned.  Reading
\* .position of an undefined carModel would throw ("error")
carUpdate(loaded) == IF loaded THEN "assigned" ELSE "skipped"

\* updateCarPosition() from line 387 on.  `scratch` is the contents of the
\* scratch vectors after getPointAt and getTangentAt (lines 384, 385):
\* `position` is the vector getTangentAt has overwritten
placeCar(scratch) ==
    LET tangent  == scratch.vector2
        position == scratch.vector
        forward  == normalize(tangent)
        up       == <<0, VScale, 0>>
        right    == normalize(crossVectors(up, forward))
        carUp    == normalize(crossVectors(forward, right))
    IN  [position |-> VAdd(position, <<0, VScale \div 5, 0>>),
         basis    |-> <<right, carUp, forward>>,
         vector   |-> position,
         vector2  |-> tangent]

\* updateCarPosition() past its guard: the vehicle placement, the basis handed
\* to makeBasis(right, carUp, forward), and the scratch vectors when it returns
updateCarPosition(p, prog) == placeCar(getTangentAt(p, prog))

\* ------------------------------------------------------------ the component

\* window.innerWidth, in pixels
innerWidth == 1600

\* event.clientX of the pointer-move events explored
ClientXs == {400, 1600}

\* a pointer-move handler that does not look at isDragging
mouseMoveAlways(dragging, mx, clientX) == (clientX * MScale) \div innerWidth

\* mouseMoveHandler: if (this.isDragging) setMouseX(event.clientX / window.innerWidth)
mouseMoveHandler(dragging, mx, clientX) ==
    IF dragging THEN (clientX * MScale) \div innerWidth ELSE mx

\* ------------------------------------------------------------ state

VARIABLES
    \* AnimationService
    path,            \* the ParametricCurve createParametricCurve() returns
    initialized,     \* scene, camera, renderer and curve exist
    animationId,
    progress,
    velocity,
    carModel,        \* this.carModel is set
    mixer,           \* this.mixer is set
    mouseX,
    geometries,
    materials,
    vector,          \* the closure's scratch vectors
    vector2,
    \* the rendering engine, the loader and the host's frame scheduler
    cameraPosition,
    cameraTarget,    \* the argument of the last camera.lookAt
    carPosition,
    carBasis,        \* <<right, carUp, forward>> of the last makeBasis
    mixerTime,       \* milliseconds handed to mixer.update
    sceneChildren,
    disposals,       \* how many times each resource was released
    loader,          \* "idle", "loading", "loaded", "failed"
    rafQueue,        \* the ids of the scheduled animation-frame callbacks
    nextRafId,
    \* the Animation component
    handlers,        \* the window listeners are registered
    isDragging,
    \* what an observer of the run records
    lastOp,          \* "animate", "dispose", "other"
    frameCount,      \* animate() invocations so far
    startCount,
    disposeCount,
    restarted,       \* start() was called after a dispose()
    sampledPosition, \* the value of `position` when getPointAt returned it
    usedPosition,    \* the value of `position` when the camera was placed
    cameraFrame,     \* the frame that last assigned the camera
    carFrame,        \* the frame that last assigned the vehicle transform
    frameError,      \* the last animate() threw
    wraps,           \* how many times the modulo wrapped progress
    degenerateFrame, \* the last frame whose sampled tangent was zero
    degenerateCar    \* the last frame that placed the vehicle from a zero tangent

serviceVars == <<path, initialized, animationId, progress, velocity, carModel, mixer,
                 mouseX, geometries, materials, vector, vector2>>

engineVars == <<cameraPosition, cameraTarget, carPosition, carBasis, mixerTime,
                sceneChildren, disposals, loader, rafQueue, nextRafId>>

componentVars == <<handlers, isDragging>>

observerVars == <<lastOp, frameCount, startCount, disposeCount, restarted,
                  sampledPosition, usedPosition, cameraFrame, carFrame, frameError,
                  wraps, degenerateFrame, degenerateCar>>

vars == <<serviceVars, engineVars, componentVars, observerVars>>

\* the per-frame state animate() writes
frameVars == <<progress, velocity, vector, vector2, cameraPosition, cameraTarget,
               carPosition, carBasis, mixerTime, sampledPosition, usedPosition,
               cameraFrame, carFrame, frameError, wraps, degenerateFrame, degenerateCar,
               frameCount,
               animationId, rafQueue, nextRafId>>

SetupGeometries == <<"trackGeometry", "liftersGeometry", "shadowGeometry", "groundGeometry">>

SetupMaterials == <<"trackMaterial", "liftersMaterial", "shadowMaterial", "groundMaterial">>

SetupChildren == {"hemisphereLight", "ambientLight", "directionalLight",
                  "trackMesh", "liftersMesh", "shadowMesh", "ground"}

Range(q) == {q[i] : i \in DOMAIN q}

Resources == Range(SetupGeometries) \cup Range(SetupMaterials) \cup {"renderer", "carModel"}

\* the simulation states the frames start from: the constructed service
\* (progress = 0, velocity = INITIAL_VELOCITY) and two rides in progress: at
\* the lowest speed just before the seam of the loop, and at full speed on
\* the steepest descent
RideStates == {<<0, INITIAL_VELOCITY>>,
               <<PScale - MIN_VELOCITY \div 2, MIN_VELOCITY>>,
               <<147 * (PScale \div 1000), MAX_VELOCITY>>}

InitWith(p, ride) ==
    /\ path = p
    /\ initialized = FALSE
    /\ animationId = 0
    /\ progress = ride[1]
    /\ velocity = ride[2]
    /\ carModel = FALSE
    /\ mixer = FALSE
    /\ mouseX = 0
    /\ geometries = <<>>
    /\ materials = <<>>
    /\ vector = ZeroVector
    /\ vector2 = ZeroVector
    /\ cameraPosition = ZeroVector
    /\ cameraTarget = ZeroVector
    /\ carPosition = ZeroVector
    /\ carBasis = <<ZeroVector, ZeroVector, ZeroVector>>
    /\ mixerTime = 0
    /\ sceneChildren = {}
    /\ disposals = [r \in Resources |-> 0]
    /\ loader = "idle"
    /\ rafQueue = <<>>
    /\ nextRafId = 1
    /\ handlers = FALSE
    /\ isDragging = FALSE
    /\ lastOp = "other"
    /\ frameCount = 0
    /\ startCount = 0
    /\ disposeCount = 0
    /\ restarted = FALSE
    /\ sampledPosition = ZeroVector
    /\ usedPosition = ZeroVector
    /\ cameraFrame = 0
    /\ carFrame = 0
    /\ frameError = FALSE
    /\ wraps = 0
    /\ degenerateFrame = 0
    /\ degenerateCar = 0

Init == \E ride \in RideStates : InitWith("coaster", ride)

\* the constructed service on the synthetic path
InitDegenerate == InitWith("plateau", <<0, INITIAL_VELOCITY>>)

\* ------------------------------------------------------------ operations

\* animate() with the results of its two updates: `cam` of
\* updateCameraPosition(), `outcome` and `car` of updateCarPosition()
runFrame(queue, cam, outcome, car) ==
    /\ frameCount < MaxFrames
    \* this.animationId = requestAnimationFrame(this.animate)
    /\ animationId' = nextRafId
    /\ nextRafId' = nextRafId + 1
    /\ rafQueue' = Append(queue, nextRafId)
    \* this.updateCameraPosition()
    /\ progress' = cam.progress
    /\ velocity' = cam.velocity
    /\ cameraPosition' = cam.cameraPosition
    /\ cameraTarget' = cam.cameraTarget
    /\ sampledPosition' = cam.sampled
    /\ usedPosition' = cam.used
    /\ cameraFrame' = frameCount + 1
    /\ wraps' = IF ~IsNaN(cam.progress) /\ progress + velocity >= PScale
                THEN wraps + 1 ELSE wraps
    /\ degenerateFrame' = IF cam.tangent = ZeroVector THEN frameCount + 1
                          ELSE degenerateFrame
    \* this.updateCarPosition()
    /\ IF outcome = "assigned"
       THEN /\ carPosition' = car.position
            /\ carBasis' = car.basis
            /\ carFrame' = frameCount + 1
            /\ vector' = car.vector
            /\ vector2' = car.vector2
            /\ degenerateCar' = IF car.vector2 = ZeroVector THEN frameCount + 1
                                ELSE degenerateCar
       ELSE /\ UNCHANGED <<carPosition, carBasis, carFrame, degenerateCar>>
            /\ vector' = cam.vector
            /\ vector2' = cam.vector2
    /\ frameError' = (outcome = "error")
    \* if (this.mixer) this.mixer.update(0.016); renderer.render(scene, camera)
    /\ mixerTime' = IF mixer /\ outcome # "error" THEN mixerTime + FIXED_DELTA_TIME
                    ELSE mixerTime
    /\ frameCount' = frameCount + 1
    /\ lastOp' = "animate"

\* animate() after updateCameraPosition(): the vehicle follows the new progress
placeCarAndRun(queue, cam) ==
    runFrame(queue, cam, carUpdate(carModel), updateCarPosition(path, cam.progress))

\* animate(): `queue` is the scheduler's queue when animate() is entered
animate(queue) ==
    placeCarAndRun(queue, updateCameraPosition(path, progress, velocity, mouseX))

\* Animation.ngOnInit(): initialize(canvas), start(), and the window listeners
NgOnInit ==
    /\ ~initialized
    /\ initialized' = TRUE
    /\ geometries' = SetupGeometries
    /\ materials' = SetupMaterials
    /\ sceneChildren' = SetupChildren
    /\ loader' = "loading"
    /\ animate(rafQueue)
    /\ startCount' = startCount + 1
    /\ handlers' = TRUE
    /\ UNCHANGED <<path, carModel, mixer, mouseX, disposals, isDragging,
                   disposeCount, restarted>>

\* AnimationService.start(), called again on the running service
Start ==
    /\ initialized
    /\ startCount < MaxStarts
    /\ animate(rafQueue)
    /\ startCount' = startCount + 1
    /\ restarted' = (restarted \/ disposeCount > 0)
    /\ UNCHANGED <<path, initialized, carModel, mixer, mouseX, geometries, materials,
                   sceneChildren, disposals, loader, handlers, isDragging, disposeCount>>

\* the host runs the oldest scheduled animation-frame callback
AnimationFrame ==
    /\ rafQueue # <<>>
    /\ animate(Tail(rafQueue))
    /\ UNCHANGED <<path, initialized, carModel, mixer, mouseX, geometries, materials,
                   sceneChildren, disposals, loader, handlers, isDragging,
                   startCount, disposeCount, restarted>>

\* the queue after cancelAnimationFrame(id)
Cancel(queue, id) == SelectSeq(queue, LAMBDA x : x # id)

Released(d, names) == [r \in Resources |-> IF r \in names THEN d[r] + 1 ELSE d[r]]

\* AnimationService.dispose()
dispose ==
    /\ disposeCount < MaxDisposes
    /\ IF animationId # 0
       THEN /\ rafQueue' = Cancel(rafQueue, animationId)
            /\ animationId' = 0
       ELSE UNCHANGED <<rafQueue, animationId>>
    \* geometries and materials are disposed and the lists emptied; the
    \* renderer is disposed whenever it exists; the scene is cleared
    /\ disposals' = Released(disposals,
                             Range(geometries) \cup Range(materials) \cup {"renderer"})
    /\ geometries' = <<>>
    /\ materials' = <<>>
    /\ sceneChildren' = {}
    /\ disposeCount' = disposeCount + 1
    /\ lastOp' = "dispose"
    /\ UNCHANGED <<path, initialized, progress, velocity, carModel, mixer, mouseX,
                   vector, vector2, cameraPosition, cameraTarget, carPosition, carBasis,
                   mixerTime, loader, nextRafId, isDragging, frameCount, startCount,
                   restarted, sampledPosition, usedPosition, cameraFrame, carFrame,
                   frameError, wraps, degenerateFrame, degenerateCar>>

\* AnimationService.dispose(), called on the initialized service
Dispose ==
    /\ initialized
    /\ dispose
    /\ UNCHANGED handlers

\* Animation.ngOnDestroy(): the listeners are removed, then dispose()
NgOnDestroy ==
    /\ handlers
    /\ handlers' = FALSE
    /\ dispose

\* the loader's onLoad callback
LoadSuccess(hasAnimations) ==
    /\ loader = "loading"
    /\ loader' = "loaded"
    /\ carModel' = TRUE
    /\ mixer' = hasAnimations
    /\ sceneChildren' = sceneChildren \cup {"carModel"}
    /\ lastOp' = "other"
    /\ UNCHANGED <<path, initialized, animationId, progress, velocity, mouseX,
                   geometries, materials, vector, vector2, cameraPosition, cameraTarget,
                   carPosition, carBasis, mixerTime, disposals, rafQueue, nextRafId,
                   componentVars, frameCount, startCount, disposeCount, restarted,
                   sampledPosition, usedPosition, cameraFrame, carFrame, frameError,
                   wraps, degenerateFrame, degenerateCar>>

\* the loader's onError callback: console.error
LoadError ==
    /\ loader = "loading"
    /\ loader' = "failed"
    /\ lastOp' = "other"
    /\ UNCHANGED <<serviceVars, cameraPosition, cameraTarget, carPosition, carBasis,
                   mixerTime, sceneChildren, disposals, rafQueue, nextRafId,
                   componentVars, frameCount, startCount, disposeCount, restarted,
                   sampledPosition, usedPosition, cameraFrame, carFrame, frameError,
                   wraps, degenerateFrame, degenerateCar>>

inputUnchanged ==
    UNCHANGED <<path, initialized, animationId, progress, velocity, carModel, mixer,
                geometries, materials, vector, vector2, engineVars, handlers,
                frameCount, startCount, disposeCount, restarted, sampledPosition,
                usedPosition, cameraFrame, carFrame, frameError, wraps, degenerateFrame,
                degenerateCar>>

\* mouseDownHandler
MouseDown ==
    /\ handlers
    /\ isDragging' = TRUE
    /\ lastOp' = "other"
    /\ UNCHANGED mouseX
    /\ inputUnchanged

\* mouseUpHandler
MouseUp ==
    /\ handlers
    /\ isDragging' = FALSE
    /\ lastOp' = "other"
    /\ UNCHANGED mouseX
    /\ inputUnchanged

\* mouseMoveHandler
MouseMove(clientX) ==
    /\ handlers
    /\ mouseX' = mouseMoveHandler(isDragging, mouseX, clientX)
    /\ lastOp' = "other"
    /\ UNCHANGED isDragging
    /\ inputUnchanged

Next ==
    \/ NgOnInit
    \/ Start
    \/ AnimationFrame
    \/ Dispose
    \/ NgOnDestroy
    \/ \E hasAnimations \in BOOLEAN : LoadSuccess(hasAnimations)
    \/ LoadError
    \/ MouseDown
    \/ MouseUp
    \/ \E clientX \in ClientXs : MouseMove(clientX)

Spec == Init /\ [][Next]_vars

SpecDegenerate == InitDegenerate /\ [][Next]_vars

\* ------------------------------------------------------------ claims

\* C1: after every per-frame update the velocity is a number within
\* [MIN_VELOCITY, MAX_VELOCITY], whatever tangents were sampled on the way and
\* whatever valid velocity the ride started from.
C1_VelocityClamped ==
    /\ ~IsNaN(velocity)
    /\ MIN_VELOCITY <= velocity
    /\ velocity <= MAX_VELOCITY

\* a later frame of the ride that started at full speed on the descent, with
\* the velocity held at the upper limit
C1_Witness ==
    /\ lastOp = "animate"
    /\ frameCount >= 2
    /\ velocity = MAX_VELOCITY

\* C2: after the modulo step of every per-frame update progress is in [0, 1):
\* it neither grows past the loop nor goes negative.
C2_ProgressInUnitInterval ==
    /\ ~IsNaN(progress)
    /\ 0 <= progress
    /\ progress < PScale

\* a frame after the one in which progress wrapped around the seam
C2_Witness ==
    /\ lastOp = "animate"
    /\ wraps >= 1
    /\ frameCount >= 2

\* C3: the path generator is pure towards its callers: the position a caller
\* obtained from getPointAt still has the value it was returned with when the
\* caller uses it, after the getTangentAt call in between.
C3_PositionKeepsItsValue ==
    frameCount >= 1 => usedPosition = sampledPosition

\* C4: once dispose() has returned, and no start() follows it, animate never
\* runs again: no frame is counted and progress, velocity and the camera are
\* not written.
C4_NoFrameAfterDispose ==
    [][(disposeCount >= 1 /\ ~restarted')
          => UNCHANGED <<frameCount, progress, velocity, cameraPosition, cameraTarget>>]_vars

\* C5: a dispose() that directly follows a dispose() is a no-op: it leaves the
\* service and the engine as the first call left them and releases nothing
\* again.
C5_SecondDisposeIsNoOp ==
    [][(lastOp = "dispose" /\ disposeCount' = disposeCount + 1)
          => UNCHANGED <<serviceVars, engineVars>>]_vars

\* the resources setup has created so far
CreatedResources ==
    IF ~initialized THEN {}
    ELSE Range(SetupGeometries) \cup Range(SetupMaterials) \cup {"renderer"}
         \cup (IF carModel THEN {"carModel"} ELSE {})

\* C6: after the teardown (one dispose()) every resource setup created, the
\* vehicle asset included whenever its load callback fires, has been released
\* exactly once and nothing is attached to the scene.
C6_ReleasedExactlyOnce ==
    disposeCount = 1 =>
        /\ \A r \in CreatedResources : disposals[r] = 1
        /\ sceneChildren = {}

\* C7: no frame fails; every frame assigns the camera; while no vehicle has
\* been delivered (still loading, or the load failed) the vehicle transform is
\* never assigned; once a vehicle is delivered every frame assigns it.
C7_ToleratesUnreadyAsset ==
    /\ ~frameError
    /\ cameraFrame = frameCount
    /\ ~carModel => (carFrame = 0 /\ carPosition = ZeroVector)
    /\ (carModel /\ lastOp = "animate") => carFrame = frameCount

\* frames kept running after the load failed
C7_Witness ==
    /\ loader = "failed"
    /\ lastOp = "animate"
    /\ frameCount >= 3
    /\ carFrame = 0

C9_PlacedAtProgress ==
    lastOp = "animate" =>
        /\ cameraPosition =
               VAdd(VAdd(VAdd(getPointAt(path, progress),
                              multiplyScalar(getTangentAt(path, progress).vector2, -3, 2)),
                         <<0, VScale, 0>>),
                    <<mouseOffsetX(mouseX), 0, 0>>)
        /\ carModel =>
               carPosition = VAdd(getPointAt(path, progress), <<0, VScale \div 5, 0>>)

\* C10: the steering input changes only in a step taken while the listeners
\* are registered and the pressed state is active, to pointerX / viewportWidth
\* of a pointer position, and that step neither runs a frame nor toggles the
\* pressed state; a step that toggles the pressed state leaves the steering
\* input alone.
C10_SteeringOnlyWhileDragging ==
    [][/\ mouseX' # mouseX =>
            /\ handlers
            /\ isDragging
            /\ \E clientX \in ClientXs : mouseX' = (clientX * MScale) \div innerWidth
            /\ UNCHANGED <<isDragging, frameCount>>
       /\ isDragging' # isDragging => mouseX' = mouseX]_vars

\* the steering input set by a drag is kept after the release, across frames
C10_Witness ==
    /\ mouseX = MScale
    /\ ~isDragging
    /\ lastOp = "animate"
    /\ frameCount >= 2

====
